---- MODULE Spec2Model ----
(***************************************************************************)
(* A model of the MCP plugin marketplace manager                           *)
(* (src/mcp_plugin_marketplace/marketplace.py and cli.py).                 *)
(*                                                                         *)
(* The install root is a finite map from entry names to entries; an entry  *)
(* is a plain file or a directory tree holding manifest.json, plugin.py,   *)
(* other files and sub-directories.  Every operation of the Marketplace    *)
(* class is one action, computed by an operator that follows the method    *)
(* statement by statement and yields the new install root together with    *)
(* the returned value or the raised exception.                             *)
(***************************************************************************)
EXTENDS Integers, Sequences, FiniteSets, TLC

VARIABLES
    fs,             \* the install root: entry name -> entry
    origin,         \* history: entry name -> name of the source whose install created it
    sys_path,       \* sys.path, a sequence of path strings
    catalogue_file, \* the content of the file at catalogue_path
    ctor,           \* outcome of Marketplace.__init__
    catalogue,      \* self.catalogue
    last,           \* the last operation: its name, argument, outcome and the state before it
    race            \* two processes running install and uninstall step by step

vars == <<fs, origin, sys_path, catalogue_file, ctor, catalogue, last, race>>

(***************************************************************************)
(* Outcomes and exceptions                                                 *)
(***************************************************************************)
Exc(cls, msg) == [cls |-> cls, msg |-> msg]

Return(v) == [kind |-> "return", value |-> v]

Raise(e) == [kind |-> "raise", exc |-> e]

Raised(out, cls) == out.kind = "raise" /\ out.exc.cls = cls

(***************************************************************************)
(* Files and directory trees                                               *)
(***************************************************************************)
NoFile == [kind |-> "none"]

\* a manifest.json holding a JSON object with the given fields
ManifestObject(fields) == [kind |-> "object", fields |-> fields]

\* a manifest.json that is not JSON
ManifestText == [kind |-> "text"]

\* a manifest.json holding a JSON array
ManifestArray == [kind |-> "array"]

NoDirs == [n \in {} |-> NoFile]

Dir(manifest, plugin, extra, dirs) ==
    [kind |-> "dir", manifest |-> manifest, plugin |-> plugin, extra |-> extra, dirs |-> dirs]

EmptyDir == Dir(NoFile, NoFile, {}, NoDirs)

PlainFile == [kind |-> "file"]

OneDir(name, tree) == [n \in {name} |-> tree]

IsDir(root, n) == n \in DOMAIN root /\ root[n].kind = "dir"

Exists(root, n) == n \in DOMAIN root

\* the install root without entry n (shutil.rmtree of a directory)
Rmtree(root, n) == [m \in DOMAIN root \ {n} |-> root[m]]

\* the install root with entry n set to e
Put(root, n, e) == [m \in DOMAIN root \cup {n} |-> IF m = n THEN e ELSE root[m]]

\* ZipFile.extractall(tmpdir): the archive's files overwrite the files already
\* there, its directories are merged into the directories already there
RECURSIVE Extractall(_, _)
Extractall(old, new) ==
    Dir(IF new.manifest # NoFile THEN new.manifest ELSE old.manifest,
        IF new.plugin # NoFile THEN new.plugin ELSE old.plugin,
        old.extra \cup new.extra,
        [n \in DOMAIN old.dirs \cup DOMAIN new.dirs |->
            IF n \in DOMAIN old.dirs /\ n \in DOMAIN new.dirs
            THEN Extractall(old.dirs[n], new.dirs[n])
            ELSE IF n \in DOMAIN new.dirs THEN new.dirs[n] ELSE old.dirs[n]])

(***************************************************************************)
(* pathlib: a path's last component is kept as stem and suffix              *)
(***************************************************************************)
\* Path.name
PathName(p) == p.stem \o p.suffix

\* str.lower() on the suffixes in use
SuffixLower(s) == IF s = ".ZIP" THEN ".zip" ELSE s

\* str(self.install_dir / name)
PluginDirPath(n) == "plugins_installed/" \o n

(***************************************************************************)
(* json.load of a manifest and dict.get                                    *)
(***************************************************************************)
\* json.load(fh): a JSON object or array is returned, other text raises
JsonLoadManifest(file) ==
    IF file.kind = "text"
    THEN Raise(Exc("JSONDecodeError", "Expecting value"))
    ELSE Return(file)

\* meta.get(key, default) on a JSON object
Get(fields, key, default) == IF key \in DOMAIN fields THEN fields[key] ELSE default

\* PluginMetadata(name=meta.get("name", dir name), version=meta.get("version", "0.0.0"),
\*                description=meta.get("description", ""), path=dir)
PluginMetadata(fields, dirname) ==
    [name |-> Get(fields, "name", dirname),
     version |-> Get(fields, "version", "0.0.0"),
     description |-> Get(fields, "description", ""),
     path |-> dirname]

\* the manifest read that ends install: exists(), json.load, meta.get
ReadManifest(root, dirname) ==
    LET file == IF IsDir(root, dirname) THEN root[dirname].manifest ELSE NoFile
        meta == JsonLoadManifest(file)
    IN  IF file = NoFile
        THEN Raise(Exc("ValueError", "Invalid plugin: missing manifest.json"))
        ELSE IF meta.kind = "raise" THEN meta
        ELSE IF meta.value.kind # "object"
        THEN Raise(Exc("AttributeError", "'list' object has no attribute 'get'"))
        ELSE Return(PluginMetadata(meta.value.fields, dirname))

(***************************************************************************)
(* Marketplace.list_installed                                              *)
(***************************************************************************)
\* the loop body as it would be if a directory without a manifest were listed
\* with the default metadata
ListEntryDefaults(root, n) ==
    IF root[n].kind = "dir"
    THEN IF root[n].manifest = NoFile THEN <<PluginMetadata([k \in {} |-> ""], n)>>
         ELSE LET meta == JsonLoadManifest(root[n].manifest)
              IN  IF meta.kind = "raise" \/ meta.value.kind # "object"
                  THEN <<>>
                  ELSE <<PluginMetadata(meta.value.fields, n)>>
    ELSE <<>>

\* the loop body as it would be if every manifest that parses were listed,
\* with the defaults where it is not a record
ListEntryAnyJson(root, n) ==
    IF root[n].kind = "dir" /\ root[n].manifest # NoFile
    THEN LET meta == JsonLoadManifest(root[n].manifest)
         IN  IF meta.kind = "raise" THEN <<>>
             ELSE IF meta.value.kind # "object"
             THEN <<PluginMetadata([k \in {} |-> ""], n)>>
             ELSE <<PluginMetadata(meta.value.fields, n)>>
    ELSE <<>>

\* the body of the loop for one entry of the install root: the entries it appends
ListEntry(root, n) ==
    IF root[n].kind = "dir" /\ root[n].manifest # NoFile
    THEN LET meta == JsonLoadManifest(root[n].manifest)
         IN  IF meta.kind = "raise" \/ meta.value.kind # "object"
             THEN <<>>
             ELSE <<PluginMetadata(meta.value.fields, n)>>
    ELSE <<>>

\* iterdir() yields the entries in an order the platform chooses; the list is
\* built here in the order of a sequence that enumerates the entries once
RECURSIVE ListOver(_, _)
ListOver(root, order) ==
    IF order = <<>> THEN <<>>
    ELSE ListEntry(root, Head(order)) \o ListOver(root, Tail(order))

RECURSIVE SeqOfSet(_)
SeqOfSet(S) == IF S = {} THEN <<>> ELSE LET x == CHOOSE y \in S : TRUE IN <<x>> \o SeqOfSet(S \ {x})

list_installed(root) == ListOver(root, SeqOfSet(DOMAIN root))

(***************************************************************************)
(* Marketplace.install                                                     *)
(*                                                                         *)
(* A source is [stem, suffix, kind, tree]: kind "missing" (no such path),  *)
(* "dir" (a directory holding tree), "zip" (a zip archive whose top level  *)
(* is tree) or "file" (any other file).  Each step yields [fs, out]: the   *)
(* install root it leaves and what it returned or raised.                  *)
(***************************************************************************)
Step(root, out) == [fs |-> root, out |-> out]

\* line 120-121: if dest.exists(): shutil.rmtree(dest)
RemoveDest(root, dest) ==
    IF ~Exists(root, dest) THEN Step(root, Return("absent"))
    ELSE IF root[dest].kind # "dir"
    THEN Step(root, Raise(Exc("NotADirectoryError", "Not a directory")))
    ELSE Step(Rmtree(root, dest), Return("removed"))

\* line 114-119: the extracted root and the name it is installed under;
\* inner is TRUE when the root is the single directory inside tmpdir
ExtractedRoot(root, tmp) ==
    LET candidates == DOMAIN root[tmp].dirs
    IN  IF Cardinality(candidates) = 1
        THEN [inner |-> TRUE, name |-> CHOOSE c \in candidates : TRUE]
        ELSE [inner |-> FALSE, name |-> tmp]

\* line 122-123: shutil.move(str(extracted_root), dest); shutil.rmtree(tmpdir, ignore_errors=True)
MoveRoot(root, tmp, er) ==
    IF ~Exists(root, tmp) \/ (er.inner /\ er.name \notin DOMAIN root[tmp].dirs)
    THEN Step(root, Raise(Exc("FileNotFoundError", "No such file or directory")))
    ELSE LET tree  == IF er.inner THEN root[tmp].dirs[er.name] ELSE root[tmp]
             moved == Put(root, er.name, tree)
         IN  Step(Rmtree(moved, tmp), Return(er.name))

\* lines 105-124: the archive branch
InstallZip(root, src) ==
    LET tmp == src.stem \o "_tmp"
    IN  IF src.kind = "dir"
        THEN Step(root, Raise(Exc("IsADirectoryError", "Is a directory")))
        ELSE IF src.kind # "zip"
        THEN Step(root, Raise(Exc("BadZipFile", "File is not a zip file")))
        ELSE IF Exists(root, tmp) /\ ~IsDir(root, tmp)
        THEN Step(root, Raise(Exc("FileExistsError", "File exists")))
        ELSE LET made      == IF Exists(root, tmp) THEN root ELSE Put(root, tmp, EmptyDir)
                 extracted == Put(made, tmp, Extractall(made[tmp], src.tree))
                 er        == ExtractedRoot(extracted, tmp)
                 cleared   == RemoveDest(extracted, er.name)
             IN  IF cleared.out.kind = "raise" THEN cleared
                 ELSE MoveRoot(cleared.fs, tmp, er)

\* lines 125-130: the directory branch
InstallDir(root, src) ==
    LET dest    == PathName(src)
        cleared == RemoveDest(root, dest)
    IN  IF cleared.out.kind = "raise" THEN cleared
        ELSE Step(Put(cleared.fs, dest, src.tree), Return(dest))

\* lines 102-132: placement; out is Return(installed directory name) or an exception
Place(root, src) ==
    IF src.kind = "missing"
    THEN Step(root, Raise(Exc("FileNotFoundError", "Plugin source not found")))
    ELSE IF SuffixLower(src.suffix) = ".zip" THEN InstallZip(root, src)
    ELSE IF src.kind = "dir" THEN InstallDir(root, src)
    ELSE Step(root, Raise(Exc("ValueError", "Plugin source must be a directory or zip file")))

\* install as it would be if it rolled the placement back when the manifest is missing
installWithRollback(root, src) ==
    LET placed == Place(root, src)
        meta   == ReadManifest(placed.fs, placed.out.value)
    IN  IF placed.out.kind = "raise" THEN placed
        ELSE IF meta.kind = "raise" THEN Step(root, meta)
        ELSE Step(placed.fs, meta)

\* lines 97-144
install(root, src) ==
    LET placed == Place(root, src)
    IN  IF placed.out.kind = "raise" THEN placed
        ELSE Step(placed.fs, ReadManifest(placed.fs, placed.out.value))

(***************************************************************************)
(* Marketplace.uninstall                                                   *)
(***************************************************************************)
\* uninstall as it would be if it also looked for the name the manifests declare
uninstallByDeclaredName(root, plugin_name) ==
    LET declared == {n \in DOMAIN root : \E i \in 1..Len(list_installed(root)) :
                        /\ list_installed(root)[i].path = n
                        /\ list_installed(root)[i].name = plugin_name}
    IN  IF IsDir(root, plugin_name) THEN Step(Rmtree(root, plugin_name), Return(TRUE))
        ELSE IF declared # {}
        THEN Step([m \in DOMAIN root \ declared |-> root[m]], Return(TRUE))
        ELSE Step(root, Return(FALSE))

\* uninstall as it would be if it reported success without removing the directory
uninstallKeepsDir(root, plugin_name) ==
    IF Exists(root, plugin_name) /\ IsDir(root, plugin_name)
    THEN Step(root, Return(TRUE))
    ELSE Step(root, Return(FALSE))

\* lines 146-152
uninstall(root, plugin_name) ==
    IF Exists(root, plugin_name) /\ IsDir(root, plugin_name)
    THEN Step(Rmtree(root, plugin_name), Return(TRUE))
    ELSE Step(root, Return(FALSE))

(***************************************************************************)
(* Plugin code: plugin.py as the loader sees it                            *)
(***************************************************************************)
PyBool(b) == [t |-> "bool", v |-> b]

PyNone == [t |-> "NoneType"]

PyInt(i) == [t |-> "int", v |-> i]

PyStr(s) == [t |-> "str", v |-> s]

\* bool(result)
Truthy(x) ==
    CASE x.t = "bool" -> x.v
      [] x.t = "NoneType" -> FALSE
      [] x.t = "int" -> x.v # 0
      [] x.t = "str" -> x.v # ""

\* a plugin.py: what executing the module does, whether it defines run_test,
\* and what run_test() does
PyModule(load, has_run_test, run) ==
    [kind |-> "py", load |-> load, has_run_test |-> has_run_test, run |-> run]

(***************************************************************************)
(* Marketplace.test                                                        *)
(***************************************************************************)
TestStep(root, path, out) == [fs |-> root, sys_path |-> path, out |-> out]

\* line 164: sys.path.insert(0, str(plugin_dir))
PathInsert(path, entry) == <<entry>> \o path

\* the cleanup as it would be after the return statement instead of in a finally clause
FinallyPathOnSuccess(path, entry, out) ==
    IF out.kind = "return" THEN SelectSeq(path, LAMBDA p : p # entry) ELSE path

\* lines 178-180, the finally clause: sys.path = [p for p in sys.path if p != str(plugin_dir)]
FinallyPath(path, entry, out) == SelectSeq(path, LAMBDA p : p # entry)

\* lines 166-177, the body of the try statement
TryBody(module) ==
    IF module.load.kind = "raise" THEN module.load
    ELSE IF ~module.has_run_test
    THEN Raise(Exc("AttributeError", "Plugin does not define run_test()"))
    ELSE IF module.run.kind = "raise" THEN module.run
    ELSE Return(Truthy(module.run.value))

\* lines 154-180
test(root, path, plugin_name) ==
    IF ~Exists(root, plugin_name)
    THEN TestStep(root, path, Raise(Exc("ValueError", "Plugin not installed")))
    ELSE IF ~IsDir(root, plugin_name) \/ root[plugin_name].plugin = NoFile
    THEN TestStep(root, path, Raise(Exc("ValueError", "Plugin has no plugin.py")))
    ELSE LET entry == PluginDirPath(plugin_name)
             out   == TryBody(root[plugin_name].plugin)
         IN  TestStep(root,
                      FinallyPath(PathInsert(path, entry), entry, out),
                      out)

(***************************************************************************)
(* The inputs: manifests, plugin modules, sources, names                   *)
(***************************************************************************)
NoFields == [k \in {} |-> ""]

ManifestFoo2 == ManifestObject([name |-> "foo", version |-> "2.0", description |-> "d"])

ManifestFoo1 == ManifestObject([name |-> "foo", version |-> "1.0"])

ManifestEmpty == ManifestObject(NoFields)

PyPasses == PyModule(Return("loaded"), TRUE, Return(PyBool(TRUE)))

PyEntryRaises == PyModule(Return("loaded"), TRUE, Raise(Exc("RuntimeError", "boom")))

PyNoEntry == PyModule(Return("loaded"), FALSE, Return(PyNone))

PySyntaxError == PyModule(Raise(Exc("SyntaxError", "invalid syntax")), FALSE, Return(PyNone))

PyReturnsNone == PyModule(Return("loaded"), TRUE, Return(PyNone))

\* a module whose top-level code reads an attribute that does not exist
PyLoadAttributeError ==
    PyModule(Raise(Exc("AttributeError", "module 'os' has no attribute 'nope'")),
             TRUE, Return(PyBool(TRUE)))

Source(stem, suffix, kind, tree) == [stem |-> stem, suffix |-> suffix, kind |-> kind, tree |-> tree]

\* directory sources; the three foo sources are one path with changing content
DirSources ==
    { Source("foo", "", "dir", Dir(ManifestFoo2, PyPasses, {"a.txt"}, NoDirs)),
      Source("foo", "", "dir", Dir(ManifestFoo1, PyEntryRaises, {"b.txt"}, NoDirs)),
      Source("foo", "", "dir", Dir(NoFile, PyNoEntry, {}, NoDirs)),
      Source("bar", "", "dir", Dir(ManifestFoo1, PyReturnsNone, {}, NoDirs)),
      Source("bad", "", "dir", Dir(ManifestText, NoFile, {}, NoDirs)),
      Source("pkg_tmp", "", "dir", Dir(ManifestEmpty, PyLoadAttributeError, {}, NoDirs)),
      Source("x", ".zip", "dir", Dir(ManifestEmpty, NoFile, {}, NoDirs)) }

\* archives: wrapped in a folder named otherwise than the archive, wrapped in a
\* folder named like the archive, flat, flat with one sub-directory, and
\* wrapped without a manifest
ZipSources ==
    { Source("pkg", ".zip", "zip",
             Dir(NoFile, NoFile, {}, OneDir("plug", Dir(ManifestEmpty, PySyntaxError, {}, NoDirs)))),
      Source("pkg", ".ZIP", "zip",
             Dir(NoFile, NoFile, {}, OneDir("pkg", Dir(ManifestFoo2, PyPasses, {}, NoDirs)))),
      Source("pkg", ".zip", "zip", Dir(ManifestFoo2, PyPasses, {}, NoDirs)),
      Source("pkg", ".zip", "zip",
             Dir(ManifestFoo2, PyPasses, {}, OneDir("lib", Dir(NoFile, NoFile, {"x.py"}, NoDirs)))),
      Source("pkg", ".zip", "zip", Dir(NoFile, NoFile, {}, OneDir("plug", EmptyDir))) }

OtherSources ==
    { Source("ghost", "", "missing", EmptyDir),
      Source("notes", ".txt", "file", EmptyDir),
      Source("junk", ".zip", "file", EmptyDir) }

Sources == DirSources \cup ZipSources \cup OtherSources

\* the names uninstall and test are called with
PluginNames == {"foo", "bar", "bad", "plug", "pkg", "lib", "pkg_tmp", "Foo", "nonexistent"}

\* what a caller may have put on sys.path before calling test
CallerPaths == {PluginDirPath("foo")}

MaxSysPath == 2

(***************************************************************************)
(* The catalogue: JSON values, Marketplace._load_catalogue, list_available *)
(* and the search command                                                  *)
(*                                                                         *)
(* A string of the catalogue is a sequence of characters.                  *)
(***************************************************************************)
JStr(chars) == [t |-> "str", v |-> chars]

JNull == [t |-> "null"]

JNum(n) == [t |-> "number", v |-> n]

JObject(fields) == [t |-> "object", fields |-> fields]

JArray(items) == [t |-> "array", items |-> items]

\* lines 58-67: the file at catalogue_path is missing, holds bytes that are not
\* UTF-8, text that is not JSON, or JSON text holding a value
load_catalogue(file) ==
    CASE file.kind = "missing" -> Return(JArray(<<>>))
      [] file.kind = "bytes" -> Raise(Exc("UnicodeDecodeError", "invalid start byte"))
      [] file.kind = "text" -> Return(JArray(<<>>))
      [] file.kind = "json" -> Return(file.value)

\* lines 69-71
list_available(cat) == cat

\* str.lower() on one character
CharLower(c) ==
    CASE c = "E" -> "e"
      [] c = "C" -> "c"
      [] c = "H" -> "h"
      [] c = "O" -> "o"
      [] c = "P" -> "p"
      [] OTHER -> c

\* str.lower()
StrLower(str) == [i \in 1..Len(str) |-> CharLower(str[i])]

\* needle in hay, on strings
Contains(hay, needle) ==
    \E i \in 0..(Len(hay) - Len(needle)) : SubSeq(hay, i + 1, i + Len(needle)) = needle

\* keyword_lower in p.get(key, "").lower()
FieldContains(p, key, keyword_lower) ==
    IF p.t # "object"
    THEN Raise(Exc("AttributeError", "object has no attribute 'get'"))
    ELSE LET val == Get(p.fields, key, JStr(<<>>))
         IN  IF val.t # "str"
             THEN Raise(Exc("AttributeError", "object has no attribute 'lower'"))
             ELSE Return(Contains(StrLower(val.v), keyword_lower))

\* cli.py line 103, the condition of the comprehension; or evaluates its right
\* operand only when the left one is false
EntryMatches(p, keyword_lower) ==
    LET in_name == FieldContains(p, "name", keyword_lower)
    IN  IF in_name.kind = "raise" \/ in_name.value THEN in_name
        ELSE FieldContains(p, "description", keyword_lower)

\* cli.py line 103, the comprehension over the items
RECURSIVE Comprehension(_, _)
Comprehension(items, keyword_lower) ==
    IF items = <<>> THEN Return(<<>>)
    ELSE LET first == EntryMatches(Head(items), keyword_lower)
             rest  == Comprehension(Tail(items), keyword_lower)
         IN  IF first.kind = "raise" THEN first
             ELSE IF rest.kind = "raise" THEN rest
             ELSE Return((IF first.value THEN <<Head(items)>> ELSE <<>>) \o rest.value)

\* search as it would be without lowering the keyword
searchKeywordAsTyped(cat, keyword) ==
    LET available == list_available(cat)
    IN  CASE available.t = "array" -> Comprehension(available.items, keyword)
          [] available.t = "object" ->
                IF DOMAIN available.fields = {} THEN Return(<<>>)
                ELSE Raise(Exc("AttributeError", "'str' object has no attribute 'get'"))
          [] OTHER -> Raise(Exc("TypeError", "object is not iterable"))

\* cli.py lines 100-109: the matches the command prints
search(cat, keyword) ==
    LET keyword_lower == StrLower(keyword)
        available == list_available(cat)
    IN  CASE available.t = "array" -> Comprehension(available.items, keyword_lower)
          [] available.t = "object" ->
                IF DOMAIN available.fields = {} THEN Return(<<>>)
                ELSE Raise(Exc("AttributeError", "'str' object has no attribute 'get'"))
          [] OTHER -> Raise(Exc("TypeError", "object is not iterable"))

(***************************************************************************)
(* The catalogue inputs                                                    *)
(***************************************************************************)
Absent == [t |-> "absent"]

\* a catalogue record with version "1" and the given name and description
Entry(name, description) ==
    JObject([k \in {"version"} \cup (IF name = Absent THEN {} ELSE {"name"})
                               \cup (IF description = Absent THEN {} ELSE {"description"}) |->
                CASE k = "name" -> name
                  [] k = "description" -> description
                  [] OTHER -> JStr(<<"1">>)])

EntryNames == {Absent, JStr(<<"e", "c", "h", "o">>), JStr(<<"E", "C", "H", "O">>), JStr(<<"z", "z">>)}

EntryDescriptions == {Absent, JStr(<<"E", "c", "h", "o", " ", "p">>), JStr(<<"C", "h">>)}

Records == {Entry(n, d) : n \in EntryNames, d \in EntryDescriptions}

\* items that are not records of strings
OddItems == {JNum(3), Entry(JNull, Absent)}

Keywords ==
    { <<>>, <<"e", "c", "h", "o">>, <<"E", "C", "H", "O">>, <<"z", "z", "z">>,
      <<"C", "h">>, <<"o", " ", "P">>, <<"z">> }

MaxCatalogueLen == 2

SeqsUpTo(S, n) == UNION {[1..k -> S] : k \in 0..n}

CatalogueFiles ==
    { [kind |-> "missing"], [kind |-> "bytes"], [kind |-> "text"],
      [kind |-> "json", value |-> JNum(42)],
      [kind |-> "json", value |-> JObject([name |-> JStr(<<"e", "c", "h", "o">>)])],
      [kind |-> "json", value |-> JObject(NoFields)] }
    \cup {[kind |-> "json", value |-> JArray(items)] :
            items \in SeqsUpTo(Records \cup OddItems, MaxCatalogueLen)}

NoLast == [op |-> "none"]

\* no processes are running
NoRace == [ipc |-> "idle", upc |-> "idle"]

Before == [fs |-> fs, sys_path |-> sys_path]

(***************************************************************************)
(* Actions                                                                 *)
(***************************************************************************)
Init ==
    /\ fs = [n \in {} |-> PlainFile]
    /\ origin = [n \in {} |-> ""]
    /\ sys_path = <<"site-packages">>
    /\ catalogue_file = [kind |-> "missing"]
    /\ ctor = Return("ok")
    /\ catalogue = JArray(<<>>)
    /\ last = NoLast
    /\ race = NoRace

\* the source is an archive by its extension
IsArchive(src) == src.kind = "zip" /\ src.suffix \in {".zip", ".ZIP"}

\* the source is a directory; one named like an archive is left to C11
IsDirSource(src) == src.kind = "dir" /\ SuffixLower(src.suffix) # ".zip"

\* the plugin root of a source as the specification describes it: the directory
\* itself; for an archive its single top-level directory when its top level
\* holds no manifest, and the top level otherwise
SpecPluginRoot(src) ==
    IF IsArchive(src) /\ src.tree.manifest = NoFile /\ Cardinality(DOMAIN src.tree.dirs) = 1
    THEN src.tree.dirs[CHOOSE d \in DOMAIN src.tree.dirs : TRUE]
    ELSE src.tree

\* a source that exists and holds a manifest record at its plugin root
ValidSource(src) ==
    /\ IsArchive(src) \/ IsDirSource(src)
    /\ SpecPluginRoot(src).manifest.kind = "object"

\* the operation before this one was an install of a valid source at the same path
SamePathBefore(src) ==
    /\ last.op = "install"
    /\ PathName(last.arg) = PathName(src)
    /\ last.arg.kind = src.kind
    /\ ValidSource(last.arg)

\* the operation before this one was a successful install that returned directory n
InstalledBefore(n) ==
    /\ last.op = "install"
    /\ last.out.kind = "return"
    /\ last.out.value.path = n

\* the origin of the entries of root: created entries are credited to src
Credit(root, src) ==
    [n \in DOMAIN root |-> IF n \in DOMAIN fs /\ root[n] = fs[n] THEN origin[n] ELSE PathName(src)]

Install ==
    \E src \in Sources :
        LET r == install(fs, src)
        IN  /\ ctor.kind = "return"
            /\ fs' = r.fs
            /\ origin' = Credit(r.fs, src)
            /\ last' = [op |-> "install", arg |-> src, out |-> r.out, pre |-> Before,
                         again |-> SamePathBefore(src)]
            /\ UNCHANGED <<sys_path, catalogue_file, ctor, catalogue, race>>

Uninstall ==
    \E n \in PluginNames :
        LET r == uninstall(fs, n)
        IN  /\ ctor.kind = "return"
            /\ fs' = r.fs
            /\ origin' = [m \in DOMAIN r.fs |-> origin[m]]
            /\ last' = [op |-> "uninstall", arg |-> n, out |-> r.out, pre |-> Before,
                         after_install |-> InstalledBefore(n)]
            /\ UNCHANGED <<sys_path, catalogue_file, ctor, catalogue, race>>

Test ==
    \E n \in PluginNames :
        LET r == test(fs, sys_path, n)
        IN  /\ ctor.kind = "return"
            /\ fs' = r.fs
            /\ sys_path' = r.sys_path
            /\ last' = [op |-> "test", arg |-> n, out |-> r.out, pre |-> Before]
            /\ UNCHANGED <<origin, catalogue_file, ctor, catalogue, race>>

\* the caller puts a directory on sys.path itself
CallerAddsPath ==
    \E p \in CallerPaths :
        /\ Len(sys_path) < MaxSysPath
        /\ sys_path' = <<p>> \o sys_path
        /\ last' = [op |-> "sys.path.insert", arg |-> p, out |-> Return("None"), pre |-> Before]
        /\ UNCHANGED <<fs, origin, catalogue_file, ctor, catalogue, race>>

Next == Install \/ Uninstall \/ Test \/ CallerAddsPath

\* Marketplace.__init__ over every catalogue file, lines 44-56
CatalogueInit ==
    /\ fs = [n \in {} |-> PlainFile]
    /\ origin = [n \in {} |-> ""]
    /\ sys_path = <<"site-packages">>
    /\ catalogue_file \in CatalogueFiles
    /\ ctor = (IF load_catalogue(catalogue_file).kind = "raise"
               THEN load_catalogue(catalogue_file) ELSE Return("ok"))
    /\ catalogue = (IF load_catalogue(catalogue_file).kind = "raise"
                    THEN JArray(<<>>) ELSE load_catalogue(catalogue_file).value)
    /\ last = NoLast
    /\ race = NoRace

Search ==
    \E keyword \in Keywords :
        /\ ctor.kind = "return"
        /\ last' = [op |-> "search", arg |-> keyword, out |-> search(catalogue, keyword)]
        /\ UNCHANGED <<fs, origin, sys_path, catalogue_file, ctor, catalogue, race>>

ListAvailable ==
    /\ ctor.kind = "return"
    /\ last' = [op |-> "list", arg |-> "", out |-> Return(list_available(catalogue))]
    /\ UNCHANGED <<fs, origin, sys_path, catalogue_file, ctor, catalogue, race>>

CatalogueNext == Search \/ ListAvailable

CatalogueSpec == CatalogueInit /\ [][CatalogueNext]_vars

Spec == Init /\ [][Next]_vars

(***************************************************************************)
(* Properties                                                              *)
(***************************************************************************)
\* the entries list installed reports for directory n
ListedAt(root, n) == {i \in 1..Len(list_installed(root)) : list_installed(root)[i].path = n}

Ran(op) == last.op = op

\* C1: installing a directory, a wrapped archive or a flat archive that holds a
\* manifest at its plugin root succeeds, and list installed then has an entry
\* with the manifest's name, version and description, absent fields defaulted
\* to the directory name, "0.0.0" and ""
C1_InstallThenListed ==
    (Ran("install") /\ ValidSource(last.arg)) =>
        /\ last.out.kind = "return"
        /\ LET m == SpecPluginRoot(last.arg).manifest.fields
               d == last.out.value.path
           IN  \E i \in ListedAt(fs, d) :
                  LET e == list_installed(fs)[i]
                  IN  /\ e.name = (IF "name" \in DOMAIN m THEN m.name ELSE d)
                      /\ e.version = (IF "version" \in DOMAIN m THEN m.version ELSE "0.0.0")
                      /\ e.description = (IF "description" \in DOMAIN m THEN m.description ELSE "")

\* the plugin root of an archive as C2 states it: the single top-level
\* directory when there is exactly one, else the extraction root
ArchiveRoot(src) ==
    IF Cardinality(DOMAIN src.tree.dirs) = 1
    THEN src.tree.dirs[CHOOSE d \in DOMAIN src.tree.dirs : TRUE]
    ELSE src.tree

\* C2: installing an archive leaves its plugin root in the install root under
\* the archive's base name, replacing what was installed under that name
C2_ArchiveUnderStem ==
    (Ran("install") /\ IsArchive(last.arg)) =>
        /\ IsDir(fs, last.arg.stem)
        /\ fs[last.arg.stem] = ArchiveRoot(last.arg)

\* the directories of the install root that installs of this source path created
CreatedBy(src) == {n \in DOMAIN fs : origin[n] = PathName(src)}

\* C3: installing a valid source path a second time leaves exactly one installed
\* directory for it, holding exactly the source's content at the second
\* install, and exactly one entry of list installed
C3_ReinstallOverwrites ==
    (Ran("install") /\ last.again /\ ValidSource(last.arg)) =>
        /\ last.out.kind = "return"
        /\ Cardinality(CreatedBy(last.arg)) = 1
        /\ \A n \in CreatedBy(last.arg) :
              /\ fs[n] = SpecPluginRoot(last.arg)
              /\ Cardinality(ListedAt(fs, n)) = 1

\* C4: uninstall(n) with no directory named exactly n returns false, raises
\* nothing and leaves the install root as it was
C4_UninstallMissingIsNoop ==
    (Ran("uninstall") /\ ~IsDir(last.pre.fs, last.arg)) =>
        /\ last.out = Return(FALSE)
        /\ fs = last.pre.fs

\* uninstall("foo") was called while no directory foo existed but an installed
\* plugin of another directory name declared the name foo in its manifest
C4_Witness ==
    /\ Ran("uninstall")
    /\ last.arg = "foo"
    /\ ~IsDir(last.pre.fs, "foo")
    /\ \E i \in 1..Len(list_installed(last.pre.fs)) :
          /\ list_installed(last.pre.fs)[i].name = "foo"
          /\ list_installed(last.pre.fs)[i].path # "foo"

\* C5: after a successful install, uninstall with the installed directory's
\* name returns true, the directory is gone and list installed has no entry for it
C5_UninstallAfterInstall ==
    (Ran("uninstall") /\ last.after_install) =>
        /\ last.out = Return(TRUE)
        /\ ~Exists(fs, last.arg)
        /\ ListedAt(fs, last.arg) = {}

\* a successful install was followed by uninstall of the directory it returned,
\* which list installed reported before
C5_Witness ==
    /\ Ran("uninstall")
    /\ last.after_install
    /\ ListedAt(last.pre.fs, last.arg) # {}

InPath(path, entry) == \E i \in 1..Len(path) : path[i] = entry

\* the plugin directory existed and held plugin.py when test was called, so
\* the call reached the try statement
ReachedTry == Ran("test") /\ IsDir(last.pre.fs, last.arg) /\ last.pre.fs[last.arg].plugin # NoFile

\* C6: when test(n) returns or fails - the entry point returned or raised, the
\* module failed to load or lacks the entry point - the plugin directory is not
\* on the module search path
C6_PathCleanedOnEveryExit ==
    ReachedTry => ~InPath(sys_path, PluginDirPath(last.arg))

\* test(n) ended with the exception the entry point raised
C6_Witness ==
    /\ ReachedTry
    /\ Raised(last.out, "RuntimeError")
    /\ ~InPath(sys_path, PluginDirPath(last.arg))

InvalidPlugin == Exc("ValueError", "Invalid plugin: missing manifest.json")

\* install placed the source (the placement raised nothing) in directory d
PlacedAt(d) ==
    /\ Ran("install")
    /\ Place(last.pre.fs, last.arg).out = Return(d)

\* the tree install places: the directory source itself, or the directory the
\* archive is wrapped in
PlacedTree(src, d) == IF IsDirSource(src) THEN src.tree ELSE src.tree.dirs[d]

\* C7: when install places a source without a manifest at its plugin root it
\* fails with InvalidPlugin, the placed directory stays in the install root
\* with the source's content, and list installed does not report it
C7_NoManifestNoRollback ==
    Ran("install") =>
        \A d \in DOMAIN fs \cup DOMAIN last.pre.fs :
            (PlacedAt(d) /\ PlacedTree(last.arg, d).manifest = NoFile) =>
                /\ last.out = Raise(InvalidPlugin)
                /\ IsDir(fs, d)
                /\ fs[d] = PlacedTree(last.arg, d)
                /\ ListedAt(fs, d) = {}

\* a source without a manifest was installed over a valid installation of the
\* same name, which is gone
C7_Witness ==
    /\ PlacedAt("foo")
    /\ last.arg.tree.manifest = NoFile
    /\ ListedAt(last.pre.fs, "foo") # {}
    /\ ListedAt(fs, "foo") = {}
    /\ IsDir(fs, "foo")

\* the exception test raises for a name that is not in the install root
NotInstalledError == test(fs, sys_path, "no such plugin").out.exc

\* C8: test(n) with no directory n fails with NotInstalled, loads nothing and
\* changes neither the install root nor the module search path; every other
\* failure of test is of another error kind (exception class)
C8_NotInstalledDistinct ==
    Ran("test") =>
        /\ ~IsDir(last.pre.fs, last.arg) =>
              /\ last.out = Raise(NotInstalledError)
              /\ fs = last.pre.fs
              /\ sys_path = last.pre.sys_path
        /\ (IsDir(last.pre.fs, last.arg) /\ last.out.kind = "raise") =>
              last.out.exc.cls # NotInstalledError.cls

\* the file at catalogue_path holds an array of records
ArrayOfRecords(file) ==
    /\ file.kind = "json"
    /\ file.value.t = "array"
    /\ \A i \in 1..Len(file.value.items) : file.value.items[i].t = "object"

\* C9: constructing the manager never raises while loading the catalogue, and
\* with a catalogue file that is missing or does not hold an array of records
\* list available is the empty sequence
C9_LoadNeverRaises ==
    /\ ctor.kind = "return"
    /\ ~ArrayOfRecords(catalogue_file) => list_available(catalogue) = JArray(<<>>)

\* two characters are the same letter, case ignored
SameLetter(a, b) ==
    \/ a = b
    \/ \E pair \in {<<"E", "e">>, <<"C", "c">>, <<"H", "h">>, <<"O", "o">>, <<"P", "p">>} :
          \/ (a = pair[1] /\ b = pair[2])
          \/ (a = pair[2] /\ b = pair[1])

\* keyword occurs in text, case ignored
OccursIn(keyword, text) ==
    \E at \in 0..(Len(text) - Len(keyword)) :
        \A j \in 1..Len(keyword) : SameLetter(keyword[j], text[at + j])

\* the text of a field of a catalogue record, empty when the field is absent
FieldText(p, key) == IF key \in DOMAIN p.fields THEN p.fields[key].v ELSE <<>>

\* the catalogue is an array of records whose names and descriptions are strings
RecordsOfStrings(cat) ==
    /\ cat.t = "array"
    /\ \A i \in 1..Len(cat.items) :
          /\ cat.items[i].t = "object"
          /\ \A k \in DOMAIN cat.items[i].fields : cat.items[i].fields[k].t = "str"

\* C10: search(K) returns, in catalogue order, exactly the entries of list
\* available whose name or description contains K, case ignored, and raises
\* nothing when none does
C10_SearchIsFilter ==
    (Ran("search") /\ RecordsOfStrings(catalogue)) =>
        last.out = Return(SelectSeq(list_available(catalogue).items,
                                    LAMBDA p : \/ OccursIn(last.arg, FieldText(p, "name"))
                                               \/ OccursIn(last.arg, FieldText(p, "description"))))

\* a search whose keyword differs in case from the text it matched kept the
\* second of two entries only, by its description
C10_Witness ==
    /\ Ran("search")
    /\ RecordsOfStrings(catalogue)
    /\ last.arg = <<"o", " ", "P">>
    /\ Len(catalogue.items) = 2
    /\ last.out.kind = "return"
    /\ last.out.value = <<catalogue.items[2]>>
    /\ catalogue.items[1] # catalogue.items[2]

NotFound == Exc("FileNotFoundError", "Plugin source not found")

InvalidSource == Exc("ValueError", "Plugin source must be a directory or zip file")

\* C11: install fails with NotFound for a missing source path and with
\* InvalidSource for a source that is neither a directory nor, by its
\* extension, an archive, leaving the install root unchanged in both cases; a
\* source that is a directory is copied under its own name whatever its extension
C11_SourceKinds ==
    Ran("install") =>
        /\ last.arg.kind = "missing" =>
              (last.out = Raise(NotFound) /\ fs = last.pre.fs)
        /\ (last.arg.kind \in {"file", "zip"} /\ SuffixLower(last.arg.suffix) # ".zip") =>
              (last.out = Raise(InvalidSource) /\ fs = last.pre.fs)
        /\ last.arg.kind = "dir" =>
              (IsDir(fs, PathName(last.arg)) /\ fs[PathName(last.arg)] = last.arg.tree)

\* C12 as stated: a directory exists under the install root if and only if
\* list installed reports a plugin located at it
C12_PresenceIffInstalled ==
    \A n \in DOMAIN fs : IsDir(fs, n) <=> ListedAt(fs, n) # {}

\* C12 amended: list installed reports a plugin at n if and only if n is a
\* directory of the install root that holds a manifest record; a directory
\* without one, left by a failed install, exists without being reported
C12_ListedIffManifestRecord ==
    /\ \A n \in DOMAIN fs :
          ListedAt(fs, n) # {} <=> (IsDir(fs, n) /\ fs[n].manifest.kind = "object")
    /\ \A i \in 1..Len(list_installed(fs)) : IsDir(fs, list_installed(fs)[i].path)

\* after a failed install the install root holds a directory that is not
\* reported next to one that is
C12_Witness ==
    /\ Ran("install")
    /\ last.out.kind = "raise"
    /\ \E n, m \in DOMAIN fs :
          /\ IsDir(fs, n) /\ ListedAt(fs, n) = {}
          /\ IsDir(fs, m) /\ ListedAt(fs, m) # {}

(***************************************************************************)
(* Two processes on one install root: install of a directory source        *)
(* (lines 102-144) and uninstall of the same name (lines 146-152), each    *)
(* taken one filesystem call at a time.  shutil.rmtree unlinks the files   *)
(* it finds and then removes the directory; shutil.copytree makes the      *)
(* directory and then copies the files one by one.                         *)
(***************************************************************************)
NoOut == [kind |-> "none"]

\* the source the installing process installs
RaceSource == Source("foo", "", "dir", Dir(ManifestFoo2, PyPasses, {}, NoDirs))

\* the name both processes work on
RaceDest == PathName(RaceSource)

\* the install root before the processes start: empty, or holding an earlier
\* installation of the source
RaceRoots == { [n \in {} |-> PlainFile],
               [n \in {RaceDest} |-> Dir(ManifestFoo1, PyEntryRaises, {}, NoDirs)] }

RaceInit ==
    /\ fs \in RaceRoots
    /\ origin = [n \in DOMAIN fs |-> RaceDest]
    /\ sys_path = <<"site-packages">>
    /\ catalogue_file = [kind |-> "missing"]
    /\ ctor = Return("ok")
    /\ catalogue = JArray(<<>>)
    /\ last = NoLast
    /\ race = [ipc |-> "start", upc |-> "start", iout |-> NoOut, uout |-> NoOut,
               tocopy |-> {"manifest.json", "plugin.py"}, overlap |-> FALSE, fs0 |-> fs]

\* a process is between its first and its last filesystem call
Midway(pc) == pc \notin {"start", "done"}

\* the installing process takes a step
IStep(pc, out, tocopy) ==
    [race EXCEPT !.ipc = pc, !.iout = out, !.tocopy = tocopy,
                 !.overlap = @ \/ Midway(race.upc)]

\* the uninstalling process takes a step
UStep(pc, out) ==
    [race EXCEPT !.upc = pc, !.uout = out, !.overlap = @ \/ Midway(race.ipc)]

RaceFrame == UNCHANGED <<origin, sys_path, catalogue_file, ctor, catalogue, last>>

\* rmtree, first part: os.scandir and os.unlink of the files found
RmtreeUnlink(root, dest) ==
    IF ~IsDir(root, dest)
    THEN Step(root, Raise(Exc("FileNotFoundError", "No such file or directory")))
    ELSE Step(Put(root, dest, EmptyDir), Return("unlinked"))

\* rmtree, second part: os.rmdir
RmtreeRmdir(root, dest) ==
    IF ~IsDir(root, dest)
    THEN Step(root, Raise(Exc("FileNotFoundError", "No such file or directory")))
    ELSE IF root[dest] # EmptyDir
    THEN Step(root, Raise(Exc("OSError", "Directory not empty")))
    ELSE Step(Rmtree(root, dest), Return("removed"))

\* copytree, first part: os.makedirs(dst)
CopyMkdir(root, dest) ==
    IF Exists(root, dest)
    THEN Step(root, Raise(Exc("FileExistsError", "File exists")))
    ELSE Step(Put(root, dest, EmptyDir), Return("made"))

\* copytree as it would be if it skipped the manifest
CopyFileSkipsManifest(root, dest, src, file) ==
    IF ~IsDir(root, dest)
    THEN Step(root, Raise(Exc("FileNotFoundError", "No such file or directory")))
    ELSE IF file = "manifest.json" THEN Step(root, Return("copied"))
    ELSE Step(Put(root, dest, [root[dest] EXCEPT !.plugin = src.tree.plugin]), Return("copied"))

\* copytree, one file: copy2(srcname, dstname)
CopyFile(root, dest, src, file) ==
    IF ~IsDir(root, dest)
    THEN Step(root, Raise(Exc("FileNotFoundError", "No such file or directory")))
    ELSE IF file = "manifest.json"
    THEN Step(Put(root, dest, [root[dest] EXCEPT !.manifest = src.tree.manifest]), Return("copied"))
    ELSE Step(Put(root, dest, [root[dest] EXCEPT !.plugin = src.tree.plugin]), Return("copied"))

\* line 127: if dest.exists()
IExists ==
    /\ race.ipc = "start"
    /\ race' = IStep(IF Exists(fs, RaceDest) THEN "unlink" ELSE "mkdir", NoOut, race.tocopy)
    /\ UNCHANGED fs
    /\ RaceFrame

\* line 128: shutil.rmtree(dest), the files
IRmtreeUnlink ==
    /\ race.ipc = "unlink"
    /\ LET r == RmtreeUnlink(fs, RaceDest)
       IN  /\ fs' = r.fs
           /\ race' = IF r.out.kind = "raise" THEN IStep("done", r.out, race.tocopy)
                      ELSE IStep("rmdir", NoOut, race.tocopy)
    /\ RaceFrame

\* line 128: shutil.rmtree(dest), the directory
IRmtreeRmdir ==
    /\ race.ipc = "rmdir"
    /\ LET r == RmtreeRmdir(fs, RaceDest)
       IN  /\ fs' = r.fs
           /\ race' = IF r.out.kind = "raise" THEN IStep("done", r.out, race.tocopy)
                      ELSE IStep("mkdir", NoOut, race.tocopy)
    /\ RaceFrame

\* line 129: shutil.copytree(src, dest), the directory
ICopyMkdir ==
    /\ race.ipc = "mkdir"
    /\ LET r == CopyMkdir(fs, RaceDest)
       IN  /\ fs' = r.fs
           /\ race' = IF r.out.kind = "raise" THEN IStep("done", r.out, race.tocopy)
                      ELSE IStep("copy", NoOut, race.tocopy)
    /\ RaceFrame

\* line 129: shutil.copytree(src, dest), the files in the order scandir gives them
ICopyFile ==
    /\ race.ipc = "copy"
    /\ \E file \in race.tocopy :
          LET r    == CopyFile(fs, RaceDest, RaceSource, file)
              left == race.tocopy \ {file}
          IN  /\ fs' = r.fs
              /\ race' = IF r.out.kind = "raise" THEN IStep("done", r.out, left)
                         ELSE IStep(IF left = {} THEN "check" ELSE "copy", NoOut, left)
    /\ RaceFrame

\* lines 134-136: manifest_file.exists()
IManifestExists ==
    /\ race.ipc = "check"
    /\ race' = IF IsDir(fs, RaceDest) /\ fs[RaceDest].manifest # NoFile
               THEN IStep("read", NoOut, race.tocopy)
               ELSE IStep("done", Raise(Exc("ValueError", "Invalid plugin: missing manifest.json")),
                          race.tocopy)
    /\ UNCHANGED fs
    /\ RaceFrame

\* lines 137-144: open, json.load, return PluginMetadata
IManifestRead ==
    /\ race.ipc = "read"
    /\ race' = IF IsDir(fs, RaceDest) /\ fs[RaceDest].manifest # NoFile
               THEN IStep("done", ReadManifest(fs, RaceDest), race.tocopy)
               ELSE IStep("done", Raise(Exc("FileNotFoundError", "No such file or directory")),
                          race.tocopy)
    /\ UNCHANGED fs
    /\ RaceFrame

\* line 149: if dest.exists() and dest.is_dir()
UExists ==
    /\ race.upc = "start"
    /\ race' = IF Exists(fs, RaceDest) /\ IsDir(fs, RaceDest)
               THEN UStep("unlink", NoOut) ELSE UStep("done", Return(FALSE))
    /\ UNCHANGED fs
    /\ RaceFrame

\* line 150: shutil.rmtree(dest), the files
URmtreeUnlink ==
    /\ race.upc = "unlink"
    /\ LET r == RmtreeUnlink(fs, RaceDest)
       IN  /\ fs' = r.fs
           /\ race' = IF r.out.kind = "raise" THEN UStep("done", r.out) ELSE UStep("rmdir", NoOut)
    /\ RaceFrame

\* lines 150-151: shutil.rmtree(dest), the directory; return True
URmtreeRmdir ==
    /\ race.upc = "rmdir"
    /\ LET r == RmtreeRmdir(fs, RaceDest)
       IN  /\ fs' = r.fs
           /\ race' = IF r.out.kind = "raise" THEN UStep("done", r.out)
                      ELSE UStep("done", Return(TRUE))
    /\ RaceFrame

RaceNext ==
    \/ IExists \/ IRmtreeUnlink \/ IRmtreeRmdir \/ ICopyMkdir \/ ICopyFile
    \/ IManifestExists \/ IManifestRead
    \/ UExists \/ URmtreeUnlink \/ URmtreeRmdir

RaceSpec == RaceInit /\ [][RaceNext]_vars

\* both processes have returned or raised
RaceDone == race.ipc = "done" /\ race.upc = "done"

\* what the two operations leave when one runs to its end before the other
\* starts: the install root and the two outcomes
SequentialOutcomes(root) ==
    LET i1 == install(root, RaceSource)
        u2 == uninstall(i1.fs, RaceDest)
        u1 == uninstall(root, RaceDest)
        i2 == install(u1.fs, RaceSource)
    IN  { [fs |-> u2.fs, iout |-> i1.out, uout |-> u2.out],
          [fs |-> i2.fs, iout |-> i2.out, uout |-> u1.out] }

RaceOutcome == [fs |-> fs, iout |-> race.iout, uout |-> race.uout]

\* the install of the valid source failed for a missing manifest or a missing
\* file, or a directory that is not the whole source is left
Unsafe ==
    \/ race.iout = Raise(InvalidPlugin)
    \/ Raised(race.iout, "FileNotFoundError")
    \/ (IsDir(fs, RaceDest) /\ fs[RaceDest] # RaceSource.tree)

\* C13: with the steps of install and uninstall of one name interleaved an
\* unsafe outcome is reachable (the witness), and it is one that no
\* sequential order of the two operations produces: a run without overlap
\* ends in a sequential outcome, and an unsafe outcome is not a sequential one
C13_UnsafeOnlyByInterleaving ==
    RaceDone =>
        /\ ~race.overlap => RaceOutcome \in SequentialOutcomes(race.fs0)
        /\ Unsafe => (race.overlap /\ RaceOutcome \notin SequentialOutcomes(race.fs0))

\* the install of the valid source failed because its manifest was missing
C13_Witness == RaceDone /\ race.iout = Raise(InvalidPlugin)

\* the install failed for a missing file
C13_MissingFile == RaceDone /\ Raised(race.iout, "FileNotFoundError")

\* a partially copied directory is left in the install root
C13_PartialCopy ==
    /\ RaceDone
    /\ IsDir(fs, RaceDest)
    /\ fs[RaceDest] # RaceSource.tree

\* the name a source is installed under as the specification derives it: the
\* directory's own name, the archive's base name
DerivedName(src) == IF IsArchive(src) THEN src.stem ELSE PathName(src)

\* C14: install changes only the directory of the install root that carries
\* the source's derived name; every other installed directory, one named like
\* the scratch directory or like the archive's wrapping folder included, has
\* the content it had before
C14_InstallFrame ==
    Ran("install") =>
        \A n \in DOMAIN last.pre.fs :
            (IsDir(last.pre.fs, n) /\ n # DerivedName(last.arg)) =>
                (Exists(fs, n) /\ fs[n] = last.pre.fs[n])

\* C15: test(n) leaves the module search path exactly as it was before the
\* call, on every exit path: the entries it held, an earlier entry equal to
\* the plugin's directory included, are still there in the same order
C15_PathRestored == Ran("test") => sys_path = last.pre.sys_path

\* the failure of test for a plugin directory, by the order of the checks
Failure(dir) ==
    IF dir.plugin = NoFile THEN "MissingEntryPoint"
    ELSE IF dir.plugin.load.kind = "raise" THEN "LoadError"
    ELSE IF ~dir.plugin.has_run_test THEN "ContractViolation"
    ELSE "none"

MissingEntryPoint == Exc("ValueError", "Plugin has no plugin.py")

ContractViolation == Exc("AttributeError", "Plugin does not define run_test()")

\* the error kind of an outcome: the class of the exception raised
KindOf(out) == IF out.kind = "raise" THEN out.exc.cls ELSE "none"

\* C16: for an existing plugin directory the three failures of test(n) are
\* reported as three distinct error kinds, checked in the order no plugin
\* module, module fails to load, module has no entry point; in each of them
\* the entry point is not invoked, so the outcome is the failure's error
C16_FailureKindsDistinct ==
    (Ran("test") /\ IsDir(last.pre.fs, last.arg)) =>
        LET dir == last.pre.fs[last.arg]
            f   == Failure(dir)
        IN  /\ f = "MissingEntryPoint" => last.out = Raise(MissingEntryPoint)
            /\ f = "ContractViolation" => last.out = Raise(ContractViolation)
            /\ f = "LoadError" =>
                   /\ last.out.kind = "raise"
                   /\ KindOf(last.out) \notin
                          {MissingEntryPoint.cls, ContractViolation.cls}
            /\ MissingEntryPoint.cls # ContractViolation.cls
            /\ f = "none" => last.out.kind = dir.plugin.run.kind

(***************************************************************************)
(* list_installed over install roots of every shape                        *)
(*                                                                         *)
(* The install root is a directory anyone can write to: it may hold plain  *)
(* files and directories with no manifest, with a manifest that is not     *)
(* JSON, with one that is JSON but not an object, and with manifest        *)
(* records.                                                                *)
(***************************************************************************)
ListNames == {"a", "b", "c", "d", "e"}

ListEntries ==
    { PlainFile,
      Dir(NoFile, PyPasses, {}, NoDirs),
      Dir(ManifestText, NoFile, {}, NoDirs),
      Dir(ManifestArray, NoFile, {}, NoDirs),
      Dir(ManifestFoo2, PyPasses, {}, NoDirs),
      Dir(ManifestEmpty, NoFile, {}, NoDirs) }

ListRoots == UNION {[S -> ListEntries] : S \in SUBSET ListNames}

ListInit ==
    /\ fs \in ListRoots
    /\ origin = [n \in DOMAIN fs |-> ""]
    /\ sys_path = <<"site-packages">>
    /\ catalogue_file = [kind |-> "missing"]
    /\ ctor = Return("ok")
    /\ catalogue = JArray(<<>>)
    /\ last = NoLast
    /\ race = NoRace

\* lines 73-95: the call reads the install root and returns the list
ListInstalled ==
    /\ ctor.kind = "return"
    /\ last' = [op |-> "list_installed", arg |-> "", out |-> Return(list_installed(fs)),
                pre |-> Before]
    /\ UNCHANGED <<fs, origin, sys_path, catalogue_file, ctor, catalogue, race>>

ListNext == ListInstalled

ListSpec == ListInit /\ [][ListNext]_vars

\* the entry of the install root is a directory holding a manifest that
\* parses to a record
HoldsRecord(root, n) == IsDir(root, n) /\ root[n].manifest.kind = "object"

EntriesFor(list, n) == {i \in 1..Len(list) : list[i].path = n}

\* C17: list installed returns exactly one entry for each immediate
\* sub-directory of the install root that holds a parseable manifest record
\* and none for anything else (plain files, directories without a manifest,
\* with a manifest that does not parse or is not a record); it raises no
\* error and leaves the install root as it was
C17_ListExactlyRecords ==
    Ran("list_installed") =>
        /\ last.out.kind = "return"
        /\ fs = last.pre.fs
        /\ \A i \in 1..Len(last.out.value) : last.out.value[i].path \in DOMAIN fs
        /\ \A n \in DOMAIN fs :
               Cardinality(EntriesFor(last.out.value, n)) =
                   IF HoldsRecord(fs, n) THEN 1 ELSE 0

C17_Witness ==
    /\ Ran("list_installed")
    /\ Len(last.out.value) = 1
    /\ \E f, d, t, a, r \in DOMAIN fs :
           /\ fs[f] = PlainFile
           /\ IsDir(fs, d) /\ fs[d].manifest = NoFile
           /\ IsDir(fs, t) /\ fs[t].manifest = ManifestText
           /\ IsDir(fs, a) /\ fs[a].manifest = ManifestArray
           /\ HoldsRecord(fs, r)

\* test reached the call of the entry point and the entry point returned
EntryReturned(root, n) ==
    /\ IsDir(root, n)
    /\ Failure(root[n]) = "none"
    /\ root[n].plugin.run.kind = "return"

\* C18: test(n) returns the entry point's result only when it is a boolean;
\* a result of another type (none, a number, a string) is rejected with the
\* ContractViolation error and is not coerced to true or false
C18_BooleanOnly ==
    (Ran("test") /\ EntryReturned(last.pre.fs, last.arg)) =>
        LET result == last.pre.fs[last.arg].plugin.run.value
        IN  IF result.t = "bool"
            THEN last.out = Return(result.v)
            ELSE /\ last.out.kind = "raise"
                 /\ last.out.exc.cls = ContractViolation.cls

====
